---- MODULE Spec2Model ----
(***************************************************************************)
(* Model of @sudobility/svgr_types: the two envelope constructors          *)
(* successResponse and errorResponse (src/src/index.ts), driven the way    *)
(* the unit tests drive them (src/unnamed/part_001): a caller reads the    *)
(* clock, calls a constructor, and reads the clock again.                  *)
(*                                                                         *)
(* A JavaScript value is a record [type, val]; an object is a record       *)
(* whose DOMAIN is its set of own property keys, so "has property k" is    *)
(* k \in DOMAIN obj.  A time value (ms since the epoch) is kept as a pair  *)
(* of day number and ms within the day, Day(t) and TimeWithinDay(t) of     *)
(* ECMAScript, because TLC's integers are 32 bits wide.                    *)
(*                                                                         *)
(* The system clock is the environment.  It only moves forward (Tick):     *)
(* the unit test `includes an ISO timestamp` presupposes this.             *)
(***************************************************************************)
EXTENDS Integers, Sequences, FiniteSets, TLC

VARIABLES clock, pc, arg, before, result, readAt, seen, log, clockReads

vars == <<clock, pc, arg, before, result, readAt, seen, log, clockReads>>

(* ------------------------------ bounds --------------------------------- *)

MaxCalls == 2

(* --------------------- ECMAScript Date arithmetic ---------------------- *)

msPerDay == 86400000
msPerHour == 3600000
msPerMinute == 60000
msPerSecond == 1000

TimeValue(day, ms) == [valid |-> TRUE, day |-> day, ms |-> ms]
InvalidDate == [valid |-> FALSE, day |-> 0, ms |-> 0]

DaysInYear(y) ==
  IF y % 4 # 0 THEN 365
  ELSE IF y % 100 # 0 THEN 366
  ELSE IF y % 400 # 0 THEN 365
  ELSE 366

InLeapYear(y) == DaysInYear(y) = 366

DayFromYear(y) ==
  365 * (y - 1970) + ((y - 1969) \div 4) - ((y - 1901) \div 100)
    + ((y - 1601) \div 400)

YearFromDay(d) ==
  CHOOSE y \in (1970 + d \div 366)..(1970 + d \div 365) :
    DayFromYear(y) <= d /\ d < DayFromYear(y + 1)

\* days before month m (0-based, 12 = end of year)
MonthStart(m, leap) ==
  <<0, 31, 59, 90, 120, 151, 181, 212, 243, 273, 304, 334, 365>>[m + 1]
    + (IF leap /\ m >= 2 THEN 1 ELSE 0)

MonthFromDay(diy, leap) ==
  CHOOSE m \in 0..11 : MonthStart(m, leap) <= diy /\ diy < MonthStart(m + 1, leap)

\* MakeDay / MakeTime / MakeDate of ECMAScript, month 0-based
MakeDate(y, m, d, hh, mm, ss, ms) ==
  TimeValue(DayFromYear(y) + MonthStart(m, InLeapYear(y)) + d - 1,
            hh * msPerHour + mm * msPerMinute + ss * msPerSecond + ms)

\* the broken-down UTC fields of a time value
Fields(tv) ==
  LET y    == YearFromDay(tv.day)
      leap == InLeapYear(y)
      diy  == tv.day - DayFromYear(y)
      m    == MonthFromDay(diy, leap)
  IN  [year   |-> y,
       month  |-> m,
       date   |-> diy - MonthStart(m, leap) + 1,
       hour   |-> tv.ms \div msPerHour,
       minute |-> (tv.ms \div msPerMinute) % 60,
       second |-> (tv.ms \div msPerSecond) % 60,
       ms     |-> tv.ms % msPerSecond]

TimeLE(a, b) == a.day < b.day \/ (a.day = b.day /\ a.ms <= b.ms)

(* --------------------------- ISO-8601 text ----------------------------- *)

DigitChar == <<"0", "1", "2", "3", "4", "5", "6", "7", "8", "9">>

DigitVal(ch) == CHOOSE d \in 0..9 : DigitChar[d + 1] = ch

RECURSIVE Pad(_, _)
\* n in decimal, zero-padded to w characters
Pad(n, w) == IF w = 0 THEN <<>> ELSE Pad(n \div 10, w - 1) \o <<DigitChar[(n % 10) + 1]>>

RECURSIVE Num(_)
\* the number a sequence of digit characters denotes
Num(s) == IF s = <<>> THEN 0 ELSE 10 * Num(SubSeq(s, 1, Len(s) - 1)) + DigitVal(s[Len(s)])

\* variant: a format with whole seconds only (the milliseconds are dropped)
toISOString_noMillis(tv) ==
  LET f == Fields(tv)
      yearText == IF f.year <= 9999 THEN Pad(f.year, 4) ELSE <<"+">> \o Pad(f.year, 6)
  IN  yearText \o <<"-">> \o Pad(f.month + 1, 2) \o <<"-">> \o Pad(f.date, 2)
        \o <<"T">> \o Pad(f.hour, 2) \o <<":">> \o Pad(f.minute, 2)
        \o <<":">> \o Pad(f.second, 2) \o <<".">> \o Pad(0, 3) \o <<"Z">>

\* Date.prototype.toISOString: YYYY-MM-DDTHH:mm:ss.sssZ, and the expanded
\* form +YYYYYY-... for years past 9999
toISOString(tv) ==
  LET f == Fields(tv)
      yearText == IF f.year <= 9999 THEN Pad(f.year, 4) ELSE <<"+">> \o Pad(f.year, 6)
  IN  yearText \o <<"-">> \o Pad(f.month + 1, 2) \o <<"-">> \o Pad(f.date, 2)
        \o <<"T">> \o Pad(f.hour, 2) \o <<":">> \o Pad(f.minute, 2)
        \o <<":">> \o Pad(f.second, 2) \o <<".">> \o Pad(f.ms, 3) \o <<"Z">>

\* the instant an ISO-8601 text denotes (Date.parse on the format above)
ParseISO(s) ==
  LET o == IF s[1] = "+" THEN 3 ELSE 0
      y == IF o = 0 THEN Num(SubSeq(s, 1, 4)) ELSE Num(SubSeq(s, 2, 7))
  IN  MakeDate(y,
               Num(SubSeq(s, 6 + o, 7 + o)) - 1,
               Num(SubSeq(s, 9 + o, 10 + o)),
               Num(SubSeq(s, 12 + o, 13 + o)),
               Num(SubSeq(s, 15 + o, 16 + o)),
               Num(SubSeq(s, 18 + o, 19 + o)),
               Num(SubSeq(s, 21 + o, 23 + o)))

(* --------------------------- JavaScript values ------------------------- *)

Undefined == [type |-> "undefined", val |-> "undefined"]
Null == [type |-> "null", val |-> "null"]
Str(s) == [type |-> "string", val |-> s]
ConvertResult == [type |-> "object", val |-> "{svg:'<svg/>',width:100,height:100}"]

Payloads == {Undefined, Null, ConvertResult}
ErrorTexts == {Str(""), Str("fail")}

HasProperty(obj, key) == key \in DOMAIN obj

\* completion of a call: a returned value or a thrown exception
Return(v) == [type |-> "normal", value |-> v]
Throw(name) == [type |-> "throw", value |-> [name |-> name]]
NoCompletion == [type |-> "none", value |-> [name |-> "none"]]

(* ------------------------------ the clock ------------------------------ *)

\* the instants the clock is read at: the last millisecond before a leap day,
\* the first millisecond of it, and the documented example
Instants ==
  { MakeDate(2024, 1, 28, 23, 59, 59, 999),
    MakeDate(2024, 1, 29, 0, 0, 0, 0),
    MakeDate(2026, 1, 23, 12, 34, 56, 789) }

\* variant: new Date(NaN), a Date with no time value
NewDate_invalid == InvalidDate

\* new Date(): a Date holding the current time value
NewDate == clock

(* --------------------------- the constructors -------------------------- *)

\* variant: data ?? null
successResponse_default(data) ==
  Return([success |-> TRUE, data |-> IF data = Undefined THEN Null ELSE data,
          timestamp |-> toISOString(NewDate)])

\* variant: the data key is only set when the payload is defined
successResponse_omitUndefined(data) ==
  IF data = Undefined
  THEN Return([success |-> TRUE, timestamp |-> toISOString(NewDate)])
  ELSE Return([success |-> TRUE, data |-> data, timestamp |-> toISOString(NewDate)])

\* variant: the envelope also carries a per-module request counter
successResponse_counter(data) ==
  Return([success |-> TRUE, data |-> data, timestamp |-> toISOString(NewDate),
          requestId |-> clockReads])

successResponse(data) ==
  LET d == NewDate
  IN  IF d.valid
      THEN Return([success |-> TRUE, data |-> data, timestamp |-> toISOString(d)])
      ELSE Throw("RangeError")

\* variant: error || 'Unknown error'
errorResponse_fallback(error) ==
  Return([success |-> FALSE,
          error |-> IF error = Str("") THEN Str("Unknown error") ELSE error,
          timestamp |-> toISOString(NewDate)])

\* variant: data: undefined is written into the error envelope
errorResponse_withData(error) ==
  Return([success |-> FALSE, data |-> Undefined, error |-> error,
          timestamp |-> toISOString(NewDate)])

\* variant: new Date(0), the epoch instead of the current time
errorResponse_stale(error) ==
  Return([success |-> FALSE, error |-> error, timestamp |-> toISOString(TimeValue(0, 0))])

errorResponse(error) ==
  LET d == NewDate
  IN  IF d.valid
      THEN Return([success |-> FALSE, error |-> error, timestamp |-> toISOString(d)])
      ELSE Throw("RangeError")

(* ------------------------------- callers ------------------------------- *)

Callers == {"c1", "c2"}

NoObservation == [made |-> FALSE, geBefore |-> FALSE, leAfter |-> FALSE]

NoArg == [kind |-> "none", input |-> Undefined]

Started == Len(log) + Cardinality({c \in Callers : pc[c] = "called"})

Init ==
  /\ clock \in Instants
  /\ pc = [c \in Callers |-> "idle"]
  /\ arg = [c \in Callers |-> NoArg]
  /\ before = [c \in Callers |-> InvalidDate]
  /\ result = [c \in Callers |-> NoCompletion]
  /\ readAt = [c \in Callers |-> InvalidDate]
  /\ seen = NoObservation
  /\ log = <<>>
  /\ clockReads = 0

\* const before = new Date(); ... the call is about to be made
Invoke(c, kind, input) ==
  /\ pc[c] = "idle"
  /\ Started < MaxCalls
  /\ pc' = [pc EXCEPT ![c] = "called"]
  /\ arg' = [arg EXCEPT ![c] = [kind |-> kind, input |-> input]]
  /\ before' = [before EXCEPT ![c] = clock]
  /\ UNCHANGED <<clock, result, readAt, seen, log, clockReads>>

\* variant: one module-level envelope object is filled in and handed to every
\* caller, so the envelopes callers already hold change with it
Run_shared(c) ==
  /\ pc[c] = "called"
  /\ LET out == IF arg[c].kind = "success"
                THEN successResponse(arg[c].input)
                ELSE errorResponse(arg[c].input)
     IN  /\ result' = [d \in Callers |->
                         IF d = c \/ pc[d] = "returned" THEN out ELSE result[d]]
         /\ log' = Append(log, [kind |-> arg[c].kind,
                                input |-> arg[c].input, clock |-> clock, out |-> out])
  /\ readAt' = [readAt EXCEPT ![c] = clock]
  /\ clockReads' = clockReads + 1
  /\ pc' = [pc EXCEPT ![c] = "returned"]
  /\ UNCHANGED <<clock, arg, before, seen>>

\* variant: the clock is read a second time
Run_readsTwice(c) ==
  /\ pc[c] = "called"
  /\ LET out == IF arg[c].kind = "success"
                THEN successResponse(arg[c].input)
                ELSE errorResponse(arg[c].input)
     IN  /\ result' = [result EXCEPT ![c] = out]
         /\ log' = Append(log, [kind |-> arg[c].kind,
                                input |-> arg[c].input, clock |-> clock, out |-> out])
  /\ readAt' = [readAt EXCEPT ![c] = clock]
  /\ clockReads' = clockReads + 2
  /\ pc' = [pc EXCEPT ![c] = "returned"]
  /\ UNCHANGED <<clock, arg, before, seen>>

\* the body of the constructor, run to completion
Run(c) ==
  /\ pc[c] = "called"
  /\ LET out == IF arg[c].kind = "success"
                THEN successResponse(arg[c].input)
                ELSE errorResponse(arg[c].input)
     IN  /\ result' = [result EXCEPT ![c] = out]
         /\ log' = Append(log, [kind |-> arg[c].kind,
                                input |-> arg[c].input, clock |-> clock, out |-> out])
  /\ readAt' = [readAt EXCEPT ![c] = clock]
  /\ clockReads' = clockReads + 1
  /\ pc' = [pc EXCEPT ![c] = "returned"]
  /\ UNCHANGED <<clock, arg, before, seen>>

\* const after = new Date(); the caller compares the timestamp with the two
\* readings (timestamp >= before, timestamp <= after) and is done with the
\* envelope
Observe(c) ==
  /\ pc[c] = "returned"
  /\ seen' = IF result[c].type = "normal"
             THEN [made |-> TRUE,
                   geBefore |-> TimeLE(before[c], ParseISO(result[c].value.timestamp)),
                   leAfter |-> TimeLE(ParseISO(result[c].value.timestamp), clock)]
             ELSE NoObservation
  /\ pc' = [pc EXCEPT ![c] = "idle"]
  /\ arg' = [arg EXCEPT ![c] = NoArg]
  /\ before' = [before EXCEPT ![c] = InvalidDate]
  /\ result' = [result EXCEPT ![c] = NoCompletion]
  /\ readAt' = [readAt EXCEPT ![c] = InvalidDate]
  /\ UNCHANGED <<clock, log, clockReads>>

\* the system clock moves forward
Tick(t) ==
  /\ TimeLE(clock, t) /\ t # clock
  /\ clock' = t
  /\ UNCHANGED <<pc, arg, before, result, readAt, seen, log, clockReads>>

Next ==
  \/ \E c \in Callers, v \in Payloads : Invoke(c, "success", v)
  \/ \E c \in Callers, s \in ErrorTexts : Invoke(c, "error", s)
  \/ \E c \in Callers : Run(c)
  \/ \E c \in Callers : Observe(c)
  \/ \E t \in Instants : Tick(t)

Spec == Init /\ [][Next]_vars

(* ------------------------------- claims -------------------------------- *)

Calls == 1..Len(log)
Made(i) == log[i].out.type = "normal"
Env(i) == log[i].out.value
Stamp(i) == ParseISO(Env(i).timestamp)

\* C1: successResponse(v) returns an envelope whose success field is true and
\* whose data field is v itself, for every payload v
C1_SuccessPassesPayload ==
  \A i \in Calls :
    log[i].kind = "success" =>
      /\ Made(i)
      /\ Env(i).success = TRUE
      /\ HasProperty(Env(i), "data")
      /\ Env(i).data = log[i].input

C1_Witness ==
  /\ \E i \in Calls : log[i].kind = "success" /\ log[i].input = ConvertResult
  /\ \E i \in Calls : log[i].kind = "success" /\ log[i].input = Undefined

\* C2: errorResponse(s) returns an envelope whose success field is false and
\* whose error field is s exactly, the empty string included
C2_ErrorVerbatim ==
  \A i \in Calls :
    log[i].kind = "error" =>
      /\ Made(i)
      /\ Env(i).success = FALSE
      /\ HasProperty(Env(i), "error")
      /\ Env(i).error = log[i].input

C2_Witness ==
  /\ \E i \in Calls : log[i].kind = "error" /\ log[i].input = Str("")
  /\ \E i \in Calls : log[i].kind = "error" /\ log[i].input = Str("fail")

\* C3: the envelope errorResponse returns has no data key at all
C3_ErrorHasNoData ==
  \A i \in Calls :
    (log[i].kind = "error" /\ Made(i)) => ~HasProperty(Env(i), "data")

C3_Witness ==
  \E i \in Calls : log[i].kind = "error" /\ Made(i) /\ log[i].input = Str("fail")

\* C4: every envelope has exactly one of data and error, data when success is
\* true and error when it is false, and always a timestamp
C4_ExactlyOneOfDataError ==
  \A i \in Calls :
    Made(i) =>
      /\ HasProperty(Env(i), "timestamp")
      /\ HasProperty(Env(i), "success")
      /\ HasProperty(Env(i), "data") # HasProperty(Env(i), "error")
      /\ Env(i).success = HasProperty(Env(i), "data")
      /\ Env(i).success = ~HasProperty(Env(i), "error")

C4_Witness ==
  /\ \E i \in Calls : Made(i) /\ log[i].kind = "success" /\ log[i].input \in {Undefined, Null}
  /\ \E i \in Calls : Made(i) /\ log[i].kind = "error"

\* C5: the timestamp of a returned envelope is no earlier than the clock
\* reading taken just before the call and no later than the one just after
C5_TimestampInWindow ==
  /\ seen.made => (seen.geBefore /\ seen.leAfter)
  /\ \A c \in Callers :
       pc[c] = "returned" =>
         /\ TimeLE(before[c], ParseISO(result[c].value.timestamp))
         /\ TimeLE(ParseISO(result[c].value.timestamp), clock)

C5_Witness ==
  /\ seen.made
  /\ \E c \in Callers :
       /\ pc[c] = "returned"
       /\ before[c] # ParseISO(result[c].value.timestamp)
       /\ clock # ParseISO(result[c].value.timestamp)

\* C6: of two consecutive constructor calls the later one's timestamp is never
\* earlier than the earlier one's
C6_TimestampsNonDecreasing ==
  \A i \in Calls :
    (i + 1 \in Calls /\ Made(i) /\ Made(i + 1)) => TimeLE(Stamp(i), Stamp(i + 1))

C6_Witness ==
  \E i \in Calls :
    /\ i + 1 \in Calls /\ Made(i) /\ Made(i + 1)
    /\ log[i].kind = "success" /\ log[i + 1].kind = "error"
    /\ Stamp(i) # Stamp(i + 1)

\* C7: a constructor call never ends in an exception: every call that has
\* run returned an envelope
C7_NeverThrows ==
  /\ \A i \in Calls : Made(i)
  /\ \A c \in Callers : pc[c] = "returned" => result[c].type = "normal"

C7_Witness ==
  /\ \E i \in Calls : log[i].kind = "success"
  /\ \E i \in Calls : log[i].kind = "error"
  /\ \E c \in Callers : pc[c] = "returned"

\* C8: whatever the interleaving, the envelope a caller holds carries that
\* caller's own input and the instant of that caller's own clock read
C8_OwnInputOwnClock ==
  \A c \in Callers :
    pc[c] = "returned" =>
      /\ result[c].type = "normal"
      /\ result[c].value.success = (arg[c].kind = "success")
      /\ arg[c].kind = "success" => result[c].value.data = arg[c].input
      /\ arg[c].kind = "error" => result[c].value.error = arg[c].input
      /\ ParseISO(result[c].value.timestamp) = readAt[c]

C8_Witness ==
  \E c, d \in Callers :
    /\ c # d /\ pc[c] = "returned" /\ pc[d] = "returned"
    /\ arg[c].kind = "success" /\ arg[d].kind = "error"
    /\ readAt[c] # readAt[d]

\* C9: a constructor call reads the clock once, leaves its argument and every
\* envelope made by an earlier call as they were; no other step reads the
\* clock or touches an envelope already made
C9_FrameOfCall ==
  [][ /\ Len(log') >= Len(log)
      /\ SubSeq(log', 1, Len(log)) = log
      /\ clockReads' - clockReads = Len(log') - Len(log)
      /\ Len(log') > Len(log) =>
           /\ Len(log') = Len(log) + 1
           /\ arg' = arg
           /\ log'[Len(log')].input \in {arg[c].input : c \in Callers}
           /\ \A c \in Callers : pc[c] = "returned" => result'[c] = result[c]
      /\ \A c \in Callers :
           (pc[c] = "returned" /\ pc'[c] = "returned") => result'[c] = result[c]
    ]_vars

C9_Witness ==
  /\ Len(log) = MaxCalls
  /\ clockReads = MaxCalls
  /\ \A c \in Callers : pc[c] = "returned"

\* C10: two calls of the same constructor with equal input and equal clock
\* reading return equal envelopes, whatever was called in between
C10_Deterministic ==
  \A i, j \in Calls :
    (log[i].kind = log[j].kind /\ log[i].input = log[j].input
       /\ log[i].clock = log[j].clock)
      => log[i].out = log[j].out

C10_Witness ==
  \E i, j \in Calls :
    /\ i < j
    /\ log[i].kind = "success" /\ log[j].kind = "success"
    /\ log[i].input = log[j].input /\ log[i].clock = log[j].clock

====
